---- MODULE Spec2Model ----
(***************************************************************************)
(* Model of src/ai_engine.py: the shared ai_status value, extract_json,    *)
(* generate_code_from_prompt (client set-up, retry loop with exponential   *)
(* backoff, document assembly) and optimize_prompt.                        *)
(*                                                                         *)
(* Text is modelled as a sequence of lexemes.  A lexeme is an indivisible  *)
(* piece of text: a closing tag, a code fence, a brace, a run of           *)
(* whitespace, or a run of other characters.  str.replace, str.strip,      *)
(* str.startswith, str.endswith and the greedy brace-span regular          *)
(* expression are computed on these sequences the way Python computes them *)
(* on characters.                                                          *)
(***************************************************************************)
EXTENDS Integers, Sequences, FiniteSets, TLC

VARIABLES ai_status, pc, frame, hist

vars == <<ai_status, pc, frame, hist>>

(***************************************************************************)
(* Bounds of the model.                                                    *)
(***************************************************************************)
MaxRetries == 2
MaxHtmlLen == 2
MaxThreads == 2
MaxPromptLen == 21
MaxProseLen == 2

\* generate_code_from_prompt(..., retries=2)
DefaultRetries == 2

(***************************************************************************)
(* Python values as produced by json.loads.                                *)
(***************************************************************************)
PyNone == [ty |-> "None"]
PyInt(n) == [ty |-> "int", n |-> n]
PyStr(s) == [ty |-> "str", s |-> s]
PyList(l) == [ty |-> "list", l |-> l]
PyDict(d) == [ty |-> "dict", d |-> d]

\* Python truth value testing, as used by "if not parsed".
Truthy(v) ==
    CASE v.ty = "None" -> FALSE
      [] v.ty = "int"  -> v.n # 0
      [] v.ty = "str"  -> v.s # <<>>
      [] v.ty = "list" -> v.l # <<>>
      [] v.ty = "dict" -> DOMAIN v.d # {}

\* dict.get(key, ""): raises AttributeError when the value is no dict.
HasGet(v) == v.ty = "dict"
Get(v, key) == IF key \in DOMAIN v.d THEN v.d[key] ELSE PyStr(<<>>)

\* The text an f-string puts for {value}.
Format(v) ==
    CASE v.ty = "str" -> v.s
      [] OTHER        -> <<"text">>

(***************************************************************************)
(* Sequences of lexemes.                                                   *)
(***************************************************************************)
RECURSIVE SeqsUpTo(_, _)
SeqsUpTo(S, n) ==
    IF n = 0 THEN {<<>>}
    ELSE LET shorter == SeqsUpTo(S, n - 1)
         IN  shorter \cup {Append(s, x) : s \in shorter, x \in S}

\* str.replace(old, new) for a one-lexeme old: every occurrence is replaced,
\* scanning left to right; the replacement text is not rescanned.
RECURSIVE Replace(_, _, _)
Replace(s, old, new) ==
    IF s = <<>> THEN <<>>
    ELSE (IF Head(s) = old THEN new ELSE <<Head(s)>>) \o Replace(Tail(s), old, new)

RECURSIVE Pow2(_)
Pow2(n) == IF n = 0 THEN 1 ELSE 2 * Pow2(n - 1)

(***************************************************************************)
(* The text of a remote reply: a sequence of these lexemes.  A member      *)
(* lexeme is one '"key": value' pair of a JSON object together with the    *)
(* comma that separates it from its neighbour; a literal lexeme is one     *)
(* JSON value that is no object (a number, a string, an array, null).      *)
(***************************************************************************)
Ws == [t |-> "ws"]
FenceJson == [t |-> "fence_json"]
Fence == [t |-> "fence"]
LBrace == [t |-> "lbrace"]
RBrace == [t |-> "rbrace"]
Prose == [t |-> "prose"]
Mem(key, val) == [t |-> "mem", key |-> key, val |-> val]
Lit(val) == [t |-> "lit", val |-> val]

\* str.strip() and its two halves.
RECURSIVE LStrip(_)
LStrip(s) == IF s # <<>> /\ Head(s) = Ws THEN LStrip(Tail(s)) ELSE s

RECURSIVE RStrip(_)
RStrip(s) ==
    IF s # <<>> /\ s[Len(s)] = Ws THEN RStrip(SubSeq(s, 1, Len(s) - 1)) ELSE s

Strip(s) == RStrip(LStrip(s))

StartsWith(s, x) == s # <<>> /\ Head(s) = x
EndsWith(s, x) == s # <<>> /\ s[Len(s)] = x

\* json.loads: [ok |-> TRUE, val |-> v] for a text that is exactly one JSON
\* value with optional surrounding whitespace, [ok |-> FALSE, ...] where
\* Python raises JSONDecodeError.  A repeated key keeps its last value.
JsonDecodeError == [ok |-> FALSE, val |-> PyNone]

json_loads(text) ==
    LET s == Strip(text)
        n == Len(s)
        inner == {i \in 2..(n - 1) : s[i] # Ws}
        keys == {s[i].key : i \in inner}
        last(k) == CHOOSE i \in inner :
                       /\ s[i].key = k
                       /\ \A j \in inner : s[j].key = k => j <= i
    IN  IF n = 1 /\ s[1].t = "lit"
        THEN [ok |-> TRUE, val |-> s[1].val]
        ELSE IF /\ n >= 2
                /\ s[1] = LBrace
                /\ s[n] = RBrace
                /\ \A i \in inner : s[i].t = "mem"
        THEN [ok |-> TRUE, val |-> PyDict([k \in keys |-> s[last(k)].val])]
        ELSE JsonDecodeError

\* re.search with the greedy brace pattern and DOTALL: the span from the first
\* opening brace to the last closing brace; found = FALSE when no closing
\* brace follows the first opening brace.
BraceSpan(s) ==
    LET opens == {i \in 1..Len(s) : s[i] = LBrace}
        closes == {i \in 1..Len(s) : s[i] = RBrace}
        first == CHOOSE i \in opens : \A j \in opens : i <= j
        lastc == CHOOSE i \in closes : \A j \in closes : j <= i
    IN  IF opens # {} /\ closes # {} /\ first < lastc
        THEN [found |-> TRUE, span |-> SubSeq(s, first, lastc)]
        ELSE [found |-> FALSE, span |-> <<>>]

\* The text left after trimming and removing the code fence: FenceJson is the
\* opening marker with its json tag, Fence the closing three backquotes.
CleanResponseUntrimmed(response) ==
    LET c1 == IF StartsWith(response, FenceJson) THEN Strip(Tail(response))
              ELSE response
    IN  IF EndsWith(c1, Fence) THEN Strip(SubSeq(c1, 1, Len(c1) - 1)) ELSE c1
CleanResponse(response) ==
    LET c0 == Strip(response)
        c1 == IF StartsWith(c0, FenceJson) THEN Strip(Tail(c0)) ELSE c0
    IN  IF EndsWith(c1, Fence) THEN Strip(SubSeq(c1, 1, Len(c1) - 1)) ELSE c1

extract_json_strict_only(response) ==
    LET strict == json_loads(CleanResponse(response))
    IN  IF strict.ok THEN strict.val ELSE PyNone
extract_json(response) ==
    LET clean_response == CleanResponse(response)
        strict == json_loads(clean_response)
        match == BraceSpan(clean_response)
    IN  IF strict.ok THEN strict.val
        ELSE IF match.found
        THEN LET inner == json_loads(match.span)
             IN  IF inner.ok THEN inner.val ELSE PyNone
        ELSE PyNone

(***************************************************************************)
(* Documents.  An HTML text is a sequence of lexemes: the closing tags     *)
(* "</head>" and "</body>" and runs of other text.                         *)
(***************************************************************************)
HeadClose == "</head>"
BodyClose == "</body>"

\* The document returned when set-up fails and when the attempts run out.
UnavailableDoc ==
    << "<!DOCTYPE html><html><head><title>Error</title><style></style>",
       HeadClose,
       "<body><h1>AI service is currently unavailable.</h1>",
       BodyClose, "</html>" >>

\* The document returned when the reply cannot be parsed.
ParseErrorDoc ==
    << "<!DOCTYPE html><html><head><title>Error</title><style></style>",
       HeadClose,
       "<body><h1>Could not parse AI response.</h1><script></script>",
       BodyClose, "</html>" >>

StyleBlock(css) == <<"<style>">> \o Format(css) \o <<"</style>">>
ScriptBlock(js) == <<"<script>">> \o Format(js) \o <<"</script>">>

\* html.replace("</head>", ...).replace("</body>", ...): the second replace
\* scans the result of the first, the inserted CSS included.
FinalCode(html, css, js) ==
    Replace(Replace(html.s, HeadClose, StyleBlock(css) \o <<HeadClose>>),
            BodyClose, ScriptBlock(js) \o <<BodyClose>>)

\* str has replace; the other values raise AttributeError on html.replace.
HasReplace(v) == v.ty = "str"

(***************************************************************************)
(* Status messages and exceptions.                                         *)
(***************************************************************************)
Msg(text, detail) == [text |-> text, detail |-> detail]

ConnectingMsg == Msg("Connecting to AI service...", "")
InitErrorMsg ==
    Msg("AI service unavailable (no internet connection or invalid API key).", "")
GeneratingMsg == Msg("Generating code...", "")
ParseErrorMsg == Msg("Could not parse AI response.", "")
OnlineMsg == Msg("AI service is online.", "")
NetworkErrorMsg == Msg("Network error, AI service is offline.", "")
ServiceErrorMsg(e) == Msg("AI service error: {e}", e.detail)
ExhaustedMsg(e) == Msg("AI service unavailable: {last_exception}.", e.detail)

\* cls is "RequestException" for an instance of
\* requests.exceptions.RequestException and "Exception" for any other one.
Exc(cls, detail) == [cls |-> cls, detail |-> detail]
NoException == Exc("None", "None")
AttributeError == Exc("Exception", "AttributeError")

IsInstance(e, cls) == cls = "Exception" \/ e.cls = cls

\* The except clauses of the attempt's try statement, in order.
AttemptHandlersNoCatchAll == <<"RequestException">>
AttemptHandlers == <<"RequestException", "Exception">>

\* The except clause of the set-up's try statement.
InitHandlers == <<"Exception">>

Catches(handlers, e) == \E i \in 1..Len(handlers) : IsInstance(e, handlers[i])
Clause(handlers, e) ==
    handlers[CHOOSE i \in 1..Len(handlers) :
                 /\ IsInstance(e, handlers[i])
                 /\ \A j \in 1..(i - 1) : ~IsInstance(e, handlers[j])]

(***************************************************************************)
(* Inputs: the retries argument, the failures the remote client raises and *)
(* the texts it returns.                                                   *)
(***************************************************************************)
Threads == 1..MaxThreads
RetriesArgs == (0..MaxRetries) \cup {DefaultRetries}

Exceptions ==
    { Exc("RequestException", "ConnectionError"),
      Exc("RequestException", "Timeout"),
      Exc("Exception", "ResourceExhausted") }

Absent == [ty |-> "absent"]
Keys == <<"html", "css", "js", "name">>

HtmlLexemes == {HeadClose, BodyClose, "text"}
HtmlValues == {PyStr(h) : h \in SeqsUpTo(HtmlLexemes, MaxHtmlLen)} \cup {PyInt(1)}
CssValues == {PyStr(<<>>), PyStr(<<"css">>), PyStr(<<BodyClose>>), PyInt(1)}
JsValues == {PyStr(<<"js">>)}
NameValues == {PyStr(<<"name">>)}

\* The JSON object with the given members; Absent leaves the key out.
Obj(h, c, j, n) ==
    LET all == <<h, c, j, n>>
        present == {i \in 1..4 : all[i] # Absent}
        idx(k) == CHOOSE i \in present : Keys[i] = k
    IN  PyDict([k \in {Keys[i] : i \in present} |-> all[idx(k)]])

Objects ==
    { Obj(h, c, j, n) : h \in HtmlValues \cup {Absent},
                        c \in CssValues \cup {Absent},
                        j \in JsValues \cup {Absent},
                        n \in NameValues \cup {Absent} }

NonObjects ==
    { PyNone, PyInt(0), PyInt(1), PyStr(<<>>), PyStr(<<"text">>),
      PyList(<<>>), PyList(<<PyInt(1)>>) }

\* json.dumps: the members in the order of Keys.
Ser(v) ==
    IF v.ty = "dict"
    THEN LET ks == SelectSeq(Keys, LAMBDA k : k \in DOMAIN v.d)
         IN  <<LBrace>> \o [i \in 1..Len(ks) |-> Mem(ks[i], v.d[ks[i]])] \o <<RBrace>>
    ELSE <<Lit(v)>>

Fenced(text) == <<FenceJson, Ws>> \o text \o <<Ws, Fence>>
InProse(text) == <<Prose, Ws>> \o text \o <<Ws, Prose>>

Unparseable ==
    { <<>>, <<Ws>>, <<Prose>>, <<LBrace, Prose, RBrace>>, <<RBrace, Prose, LBrace>>,
      <<Prose, LBrace>> }

ReplyTexts ==
    LET json == {Ser(v) : v \in Objects \cup NonObjects}
    IN  json \cup {Fenced(x) : x \in json} \cup {InProse(x) : x \in json}
             \cup Unparseable

ShapeObjects ==
    { Obj(Absent, Absent, Absent, Absent),
      Obj(Absent, Absent, Absent, PyStr(<<"name">>)),
      Obj(PyInt(1), PyStr(<<"css">>), Absent, Absent),
      Obj(PyStr(<<HeadClose, BodyClose>>), PyStr(<<"css">>), PyStr(<<"js">>), Absent) }

\* One reply text of every shape: each JSON value that is no object, the
\* empty object, objects with and without a string under "html", fenced and
\* in prose, and texts that hold no JSON.
ShapeTexts ==
    LET json == {Ser(v) : v \in NonObjects \cup ShapeObjects}
    IN  json \cup {Fenced(x) : x \in json} \cup {InProse(x) : x \in json}
             \cup Unparseable

\* The arguments of a direct call of extract_json: a JSON value between two
\* surrounding texts.  Prose around an object is up to MaxProseLen lexemes of
\* prose words, whitespace and braces; a fenced value has whitespace or none
\* at each of the four places around the two fence markers.
ProseLexemes == {Prose, Ws, LBrace, RBrace}
ProseInputs ==
    { [shape |-> "prose", before |-> b, value |-> v, after |-> a] :
        b \in SeqsUpTo(ProseLexemes, MaxProseLen),
        a \in SeqsUpTo(ProseLexemes, MaxProseLen),
        v \in ShapeObjects }
MaybeWs == {<<>>, <<Ws>>}
FencedInputs ==
    { [shape |-> "fenced", before |-> w1 \o <<FenceJson>> \o w2, value |-> v,
       after |-> w3 \o <<Fence>> \o w4] :
        w1 \in MaybeWs, w2 \in MaybeWs, w3 \in MaybeWs, w4 \in MaybeWs,
        v \in NonObjects \cup ShapeObjects }
ExtractInputs == ProseInputs \cup FencedInputs
NoInput == [shape |-> "none", before |-> <<>>, value |-> PyNone, after |-> <<>>]

\* The small input sets of the specification with several threads.
FewRetriesArgs == {0, 1}
FewExceptions == {Exc("RequestException", "Timeout")}
FewReplyTexts ==
    { Ser(Obj(PyStr(<<HeadClose, BodyClose>>), PyStr(<<"css">>), Absent, Absent)),
      <<Prose>> }

(***************************************************************************)
(* State.  ai_status is the module's shared dictionary.  pc[t] is the      *)
(* place thread t has reached, frame[t] its local variables, hist[t] what  *)
(* its current call has done so far (observation only).                    *)
(***************************************************************************)
NoMsg == Msg("", "")

IdleFrame ==
    [ retries |-> 0, attempt |-> 0, last_exception |-> NoException,
      parsed |-> PyNone, arg_state |-> "", arg_message |-> NoMsg,
      ret_pc |-> "idle", pending |-> <<>>, pending_path |-> "none",
      result |-> <<>> ]

\* op: the function called; init: how the client set-up ended; calls: remote
\* calls made; delays: the durations slept, in order; nfail: attempts that
\* raised; last_failure: the exception of the latest one; null_reply: a reply
\* from which extract_json gave None was seen; object_reply: a reply that
\* parsed to a JSON object was seen; online: an attempt has gone on to
\* set_ai_status("online", ...); path: the return statement taken;
\* prompt: the argument of optimize_prompt; reply: the text its rewriting
\* call returned; input: the argument of a direct extract_json call.
NoHist ==
    [ op |-> "none", prompt |-> <<>>, reply |-> <<>>, input |-> NoInput,
      init |-> "none", calls |-> 0, delays |-> <<>>, nfail |-> 0,
      last_failure |-> NoException, null_reply |-> FALSE, online |-> FALSE,
      object_reply |-> FALSE, path |-> "none" ]

Init ==
    /\ ai_status = [state |-> "connecting", message |-> ConnectingMsg]
    /\ pc = [t \in Threads |-> "idle"]
    /\ frame = [t \in Threads |-> IdleFrame]
    /\ hist = [t \in Threads |-> NoHist]

\* The frame at a call of set_ai_status(state, message) that continues at ret.
CallStatus(f, state, message, ret) ==
    [f EXCEPT !.arg_state = state, !.arg_message = message, !.ret_pc = ret]

\* ... followed by "return doc".
CallStatusReturn(f, state, message, doc, path) ==
    [CallStatus(f, state, message, "return") EXCEPT
        !.pending = doc, !.pending_path = path]

(***************************************************************************)
(* set_ai_status: two separate stores into the shared dictionary.          *)
(***************************************************************************)
SetState(t) ==
    /\ pc[t] = "set_state"
    /\ ai_status' = [ai_status EXCEPT !.state = frame[t].arg_state]
    /\ pc' = [pc EXCEPT ![t] = "set_message"]
    /\ UNCHANGED <<frame, hist>>

SetMessage(t) ==
    /\ pc[t] = "set_message"
    /\ ai_status' = [ai_status EXCEPT !.message = frame[t].arg_message]
    /\ pc' = [pc EXCEPT ![t] = frame[t].ret_pc]
    /\ UNCHANGED <<frame, hist>>

(***************************************************************************)
(* generate_code_from_prompt.                                              *)
(***************************************************************************)
\* Entry: last_exception = None, then the set-up's try statement begins with
\* set_ai_status("connecting", ...).
Call(t, retriesArgs) ==
    /\ pc[t] = "idle"
    /\ \E retries \in retriesArgs :
          frame' = [frame EXCEPT ![t] =
                       CallStatus([IdleFrame EXCEPT !.retries = retries],
                                  "connecting", ConnectingMsg, "configure")]
    /\ hist' = [hist EXCEPT ![t] = [NoHist EXCEPT !.op = "generate"]]
    /\ pc' = [pc EXCEPT ![t] = "set_state"]
    /\ UNCHANGED ai_status

\* The except clause of the set-up: status "error", return the document.
InitFailFrameOffline(f) ==
    CallStatusReturn(f, "offline", InitErrorMsg, UnavailableDoc, "init_error")
InitFailFrame(f) ==
    CallStatusReturn(f, "error", InitErrorMsg, UnavailableDoc, "init_error")

\* genai.configure and genai.GenerativeModel: succeed, or raise.
Configure(t, excs) ==
    /\ pc[t] = "configure"
    /\ \/ /\ pc' = [pc EXCEPT ![t] = "loop"]
          /\ hist' = [hist EXCEPT ![t].init = "ok"]
          /\ UNCHANGED frame
       \/ \E e \in excs :
             /\ hist' = [hist EXCEPT ![t].init = "failed"]
             /\ IF Catches(InitHandlers, e)
                THEN /\ frame' = [frame EXCEPT ![t] = InitFailFrame(@)]
                     /\ pc' = [pc EXCEPT ![t] = "set_state"]
                ELSE /\ pc' = [pc EXCEPT ![t] = "raised"]
                     /\ UNCHANGED frame
    /\ UNCHANGED ai_status

\* The code after the loop: status "offline" with the last exception, return
\* the document.
ExhaustedFrameError(f) ==
    CallStatusReturn(f, "error", ExhaustedMsg(f.last_exception),
                     UnavailableDoc, "exhausted")
ExhaustedFrame(f) ==
    CallStatusReturn(f, "offline", ExhaustedMsg(f.last_exception),
                     UnavailableDoc, "exhausted")

\* for attempt in range(retries + 1): the next attempt, or the code after the
\* loop when the attempts have run out.
LoopHead(t) ==
    /\ pc[t] = "loop"
    /\ frame' = [frame EXCEPT ![t] =
                    IF @.attempt < @.retries + 1
                    THEN CallStatus(@, "generating", GeneratingMsg, "remote")
                    ELSE ExhaustedFrame(@)]
    /\ pc' = [pc EXCEPT ![t] = "set_state"]
    /\ UNCHANGED <<ai_status, hist>>

\* An exception e raised inside the attempt's try statement: the first except
\* clause that matches records it and sets the status; the code after the try
\* statement (the sleep) follows.  Without a matching clause e propagates.
ExceptFrameKeepsFirst(f, e) ==
    LET g == IF f.last_exception = NoException
             THEN [f EXCEPT !.last_exception = e] ELSE f
    IN  IF ~Catches(AttemptHandlers, e) THEN f
        ELSE IF Clause(AttemptHandlers, e) = "RequestException"
        THEN CallStatus(g, "offline", NetworkErrorMsg, "sleep")
        ELSE CallStatus(g, "error", ServiceErrorMsg(e), "sleep")
ExceptFrame(f, e) ==
    IF ~Catches(AttemptHandlers, e) THEN f
    ELSE IF Clause(AttemptHandlers, e) = "RequestException"
    THEN CallStatus([f EXCEPT !.last_exception = e],
                    "offline", NetworkErrorMsg, "sleep")
    ELSE CallStatus([f EXCEPT !.last_exception = e],
                    "error", ServiceErrorMsg(e), "sleep")

ExceptPc(e) == IF Catches(AttemptHandlers, e) THEN "set_state" ELSE "raised"

\* The falsy branch of "if not parsed".
NotParsedFrameRetry(f) == ExceptFrame(f, Exc("Exception", "ParseFailure"))
NotParsedFrame(f) ==
    CallStatusReturn(f, "error", ParseErrorMsg, ParseErrorDoc, "parse_error")

\* The code after "if not parsed": set_ai_status("online", ...).
ParsedFrameWrongState(f) == CallStatus(f, "generating", GeneratingMsg, "assemble")
ParsedFrame(f) == CallStatus(f, "online", OnlineMsg, "assemble")

\* model.generate_content(formatted), response_obj.text, extract_json and
\* "if not parsed".
Remote(t, texts, excs) ==
    /\ pc[t] = "remote"
    /\ \/ \E e \in excs :
             /\ frame' = [frame EXCEPT ![t] = ExceptFrame(@, e)]
             /\ pc' = [pc EXCEPT ![t] = ExceptPc(e)]
             /\ hist' = [hist EXCEPT ![t].calls = @ + 1, ![t].nfail = @ + 1,
                                     ![t].last_failure = e]
       \/ \E text \in texts :
             LET parsed == extract_json(text)
                 f == [frame[t] EXCEPT !.parsed = parsed]
             IN  /\ frame' = [frame EXCEPT ![t] =
                                 IF ~Truthy(parsed) THEN NotParsedFrame(f)
                                 ELSE ParsedFrame(f)]
                 /\ pc' = [pc EXCEPT ![t] = "set_state"]
                 /\ hist' = [hist EXCEPT
                        ![t].calls = @ + 1,
                        ![t].null_reply = @ \/ parsed = PyNone,
                        ![t].online = @ \/ Truthy(parsed),
                        ![t].object_reply = @ \/ parsed.ty = "dict"]
    /\ UNCHANGED ai_status

\* parsed.get(...) three times, the two replaces, return final_code.
Assemble(t) ==
    /\ pc[t] = "assemble"
    /\ LET parsed == frame[t].parsed
       IN  IF ~HasGet(parsed) \/ ~HasReplace(Get(parsed, "html"))
           THEN /\ frame' = [frame EXCEPT ![t] = ExceptFrame(@, AttributeError)]
                /\ pc' = [pc EXCEPT ![t] = ExceptPc(AttributeError)]
                /\ hist' = [hist EXCEPT ![t].nfail = @ + 1,
                                        ![t].last_failure = AttributeError]
           ELSE /\ frame' = [frame EXCEPT ![t].result =
                                 FinalCode(Get(parsed, "html"), Get(parsed, "css"),
                                           Get(parsed, "js"))]
                /\ pc' = [pc EXCEPT ![t] = "done"]
                /\ hist' = [hist EXCEPT ![t].path = "assembled"]
    /\ UNCHANGED ai_status

\* The backoff delay of the failed attempt: 2 ** attempt.
BackoffDelayLinear(attempt) == attempt + 1
BackoffDelay(attempt) == Pow2(attempt)

\* time.sleep(2 ** attempt), then the loop's next value of attempt.
SleepSkipsLast(t) ==
    /\ pc[t] = "sleep"
    /\ hist' = [hist EXCEPT ![t].delays =
                    IF frame[t].attempt < frame[t].retries
                    THEN Append(@, BackoffDelay(frame[t].attempt)) ELSE @]
    /\ frame' = [frame EXCEPT ![t].attempt = @ + 1]
    /\ pc' = [pc EXCEPT ![t] = "loop"]
    /\ UNCHANGED ai_status
Sleep(t) ==
    /\ pc[t] = "sleep"
    /\ hist' = [hist EXCEPT ![t].delays = Append(@, BackoffDelay(frame[t].attempt))]
    /\ frame' = [frame EXCEPT ![t].attempt = @ + 1]
    /\ pc' = [pc EXCEPT ![t] = "loop"]
    /\ UNCHANGED ai_status

\* return of a canned document, after its set_ai_status.
Return(t) ==
    /\ pc[t] = "return"
    /\ frame' = [frame EXCEPT ![t].result = frame[t].pending]
    /\ hist' = [hist EXCEPT ![t].path = frame[t].pending_path]
    /\ pc' = [pc EXCEPT ![t] = "done"]
    /\ UNCHANGED ai_status

\* The caller takes the result; the thread is free for its next call.
Finish(t) ==
    /\ pc[t] = "done"
    /\ pc' = [pc EXCEPT ![t] = "idle"]
    /\ frame' = [frame EXCEPT ![t] = IdleFrame]
    /\ hist' = [hist EXCEPT ![t] = NoHist]
    /\ UNCHANGED ai_status

(***************************************************************************)
(* optimize_prompt.  A prompt is a sequence of characters.                 *)
(***************************************************************************)
IsSpace(c) == c \in {" ", "\n"}

RECURSIVE LStripChars(_)
LStripChars(s) == IF s # <<>> /\ IsSpace(Head(s)) THEN LStripChars(Tail(s)) ELSE s

RECURSIVE RStripChars(_)
RStripChars(s) ==
    IF s # <<>> /\ IsSpace(s[Len(s)])
    THEN RStripChars(SubSeq(s, 1, Len(s) - 1)) ELSE s

\* str.strip() on characters.
StripChars(s) == RStripChars(LStripChars(s))

\* str.lower(), on the letters the prompts use.
LowerChar(c) ==
    CASE c = "L" -> "l" [] c = "O" -> "o" [] c = "G" -> "g" [] c = "I" -> "i"
      [] c = "N" -> "n" [] c = "X" -> "x" [] OTHER -> c
Lower(s) == [i \in 1..Len(s) |-> LowerChar(s[i])]

GenericPhrasesWithLong ==
    { <<"l","o","g","i","n">>, [i \in 1..20 |-> "x"] }
generic_phrases ==
    { <<"m","a","k","e"," ","a"," ","w","e","b","s","i","t","e">>,
      <<"b","u","i","l","d"," ","u","i">>,
      <<"c","r","e","a","t","e"," ","p","a","g","e">>,
      <<"w","e","b","p","a","g","e">>,
      <<"d","a","s","h","b","o","a","r","d">>,
      <<"l","o","g","i","n">>,
      <<"l","a","n","d","i","n","g"," ","p","a","g","e">> }

is_generic(prompt) == StripChars(Lower(prompt)) \in generic_phrases

\* The length below which a prompt is always enhanced.
MinSpecificLength == 20

\* The test of the first if statement: the prompt is returned as it is.
IsSpecificOffByOne(prompt) ==
    Len(StripChars(prompt)) > MinSpecificLength /\ ~is_generic(prompt)
IsSpecificUntrimmed(prompt) ==
    Len(prompt) >= MinSpecificLength /\ ~is_generic(prompt)
IsSpecific(prompt) ==
    Len(StripChars(prompt)) >= MinSpecificLength /\ ~is_generic(prompt)

modifiers ==
    << "Use semantic HTML5 structure.",
       "Apply responsive CSS (mobile-first).",
       "Include clean modular JavaScript with comments." >>

\* "\n".join(lines)
RECURSIVE JoinLines(_)
JoinLines(lines) ==
    IF lines = <<>> THEN <<>>
    ELSE IF Len(lines) = 1 THEN lines
    ELSE <<Head(lines), "\n">> \o JoinLines(Tail(lines))

RuleBasedUntrimmed(prompt) ==
    prompt \o <<"\n", "\n">> \o JoinLines(modifiers)
rule_based_enhancement(prompt) ==
    StripChars(prompt) \o <<"\n", "\n">> \o JoinLines(modifiers)

\* Prompts: padding around a core; the cores are the generic phrases, two
\* of them in other letter cases or with a tail, and runs of 0..MaxPromptLen
\* letters, one of them with a space inside.
Fill(n) == [i \in 1..n |-> "x"]
PromptCores ==
    generic_phrases
    \cup { <<"L","o","g","i","n">>, <<"L","O","G","I","N">>, <<"o","k">>,
           <<"l","o","g","i","n">> \o Fill(MaxPromptLen - 5),
           <<"l","o","g","i","n"," ">> \o Fill(MaxPromptLen - 7),
           Fill(MaxPromptLen - 11) \o <<" ">> \o Fill(10) }
    \cup { Fill(n) : n \in 0..MaxPromptLen }
Prompts ==
    { l \o core \o r : l \in {<<>>, <<" ">>}, r \in {<<>>, <<"\n", " ">>},
                       core \in PromptCores }
FewPrompts ==
    { <<"o","k">>, <<" ">> \o Fill(MaxPromptLen), <<"l","o","g","i","n">> }

\* The texts the rewriting call returns.
ImprovedTexts ==
    { <<>>, <<" ", "\n">>, <<"d","e","t","a","i","l","e","d">>,
      <<" ","d","e","t","a","i","l","e","d","\n">> }

\* The except clause of optimize_prompt's try statement.
OptimizeHandlers == <<"Exception">>

\* What optimize_prompt does apart from the shared status: the pass-through,
\* or the rewriting call inside its try statement (set-up raises, the call
\* raises, or the call returns a text, possibly the prompt itself), with the
\* fallback to rule_based_enhancement.
OptimizeBody(t, prompts, texts, excs) ==
    /\ pc[t] = "idle"
    /\ \E prompt \in prompts :
          LET h == [NoHist EXCEPT !.op = "optimize", !.prompt = prompt]
              return(result, hst) ==
                  /\ frame' = [frame EXCEPT ![t] = [IdleFrame EXCEPT !.result = result]]
                  /\ hist' = [hist EXCEPT ![t] = hst]
                  /\ pc' = [pc EXCEPT ![t] = "done"]
          IN  IF IsSpecific(prompt)
              THEN return(prompt, [h EXCEPT !.path = "pass_through"])
              ELSE \/ \E e \in excs, calls \in {0, 1} :
                         LET hr == [h EXCEPT !.nfail = 1, !.last_failure = e,
                                             !.calls = calls,
                                             !.path = IF calls = 0 THEN "setup_raised"
                                                      ELSE "call_raised"]
                         IN  IF Catches(OptimizeHandlers, e)
                             THEN return(rule_based_enhancement(prompt), hr)
                             ELSE /\ pc' = [pc EXCEPT ![t] = "raised"]
                                  /\ hist' = [hist EXCEPT ![t] = hr]
                                  /\ UNCHANGED frame
                   \/ \E text \in texts \cup {prompt} :
                         LET improved == StripChars(text)
                             ht == [h EXCEPT !.calls = 1, !.reply = text]
                         IN  IF improved = <<>>
                             THEN return(rule_based_enhancement(prompt),
                                         [ht EXCEPT !.path = "empty_reply"])
                             ELSE return(improved, [ht EXCEPT !.path = "improved"])

\* optimize_prompt: it calls set_ai_status nowhere.
OptimizePromptSetsStatus(t, prompts, texts, excs) ==
    /\ OptimizeBody(t, prompts, texts, excs)
    /\ ai_status' = [state |-> "generating", message |-> GeneratingMsg]
OptimizePrompt(t, prompts, texts, excs) ==
    /\ OptimizeBody(t, prompts, texts, excs)
    /\ UNCHANGED ai_status

\* A direct call of extract_json(response): the result is kept in parsed.
ExtractJson(t, inputs) ==
    /\ pc[t] = "idle"
    /\ \E inp \in inputs :
          LET response == inp.before \o Ser(inp.value) \o inp.after
          IN  /\ frame' = [frame EXCEPT ![t] =
                              [IdleFrame EXCEPT !.parsed = extract_json(response)]]
              /\ hist' = [hist EXCEPT ![t] =
                              [NoHist EXCEPT !.op = "extract", !.reply = response,
                                             !.input = inp]]
    /\ pc' = [pc EXCEPT ![t] = "done"]
    /\ UNCHANGED ai_status

(***************************************************************************)
(* Specifications: one caller thread, and several concurrent ones.         *)
(***************************************************************************)
\* One step of thread t, its inputs drawn from the given sets.
Step(t, retriesArgs, texts, excs, prompts) ==
    \/ Call(t, retriesArgs)
    \/ OptimizePrompt(t, prompts, ImprovedTexts, excs)
    \/ SetState(t)
    \/ SetMessage(t)
    \/ Configure(t, excs)
    \/ LoopHead(t)
    \/ Remote(t, texts, excs)
    \/ Assemble(t)
    \/ Sleep(t)
    \/ Return(t)
    \/ Finish(t)

Next == \E t \in {1} : Step(t, RetriesArgs, ReplyTexts, Exceptions, Prompts)

Spec == Init /\ [][Next]_vars

NextThreads ==
    \E t \in Threads : Step(t, FewRetriesArgs, FewReplyTexts, FewExceptions, FewPrompts)

SpecThreads == Init /\ [][NextThreads]_vars

\* One caller whose replies are one text of every shape; the caller's thread
\* keeps running, so a step that stays enabled is taken.
NextShapes == \E t \in {1} : Step(t, RetriesArgs, ShapeTexts, Exceptions, FewPrompts)

FairSpec == Init /\ [][NextShapes]_vars /\ WF_vars(NextShapes)

\* Direct calls of extract_json by one caller.
NextExtract == \E t \in {1} : ExtractJson(t, ExtractInputs) \/ Finish(t)

SpecExtract == Init /\ [][NextExtract]_vars

(***************************************************************************)
(* Properties of generate_code_from_prompt.                                *)
(***************************************************************************)
Generating(t) == hist[t].op = "generate"
Returned(t) == pc[t] = "done" /\ Generating(t)
AfterFatal(t) == pc[t] \in {"set_state", "set_message", "return", "done"}

NoExceptionEscapes == \A t \in Threads : pc[t] # "raised"

ReturnsDocument ==
    \A t \in Threads :
        Returned(t) =>
            \/ hist[t].path = "assembled"
            \/ /\ hist[t].path \in {"init_error", "parse_error", "exhausted"}
               /\ frame[t].result \in {UnavailableDoc, ParseErrorDoc}

\* C1: whatever the remote service does (set-up failure, network failure,
\* other failure, unparseable reply, reply of any JSON shape), no exception
\* reaches the caller, a call that has returned has returned a document
\* (assembled or canned), and every call that has started returns.
C1_AlwaysReturnsDocument ==
    /\ [](NoExceptionEscapes /\ ReturnsDocument)
    /\ \A t \in {1} : (pc[t] \notin {"idle", "done"}) ~> (pc[t] = "done")

C1_Witness ==
    /\ Returned(1)
    /\ hist[1].last_failure = AttributeError
    /\ hist[1].path = "exhausted"
    /\ frame[1].result = UnavailableDoc

\* C2: after a successful set-up at most retries + 1 remote calls are made,
\* and a call in which all retries + 1 attempts raised ends with status
\* "offline", the message carrying the last attempt's failure, and the
\* unavailable document as its result.
C2_ExhaustedIsOffline ==
    \A t \in Threads :
        Generating(t) =>
            /\ hist[t].calls <= frame[t].retries + 1
            /\ (pc[t] = "done" /\ hist[t].nfail = frame[t].retries + 1) =>
                  /\ ai_status = [state |-> "offline",
                                  message |-> ExhaustedMsg(hist[t].last_failure)]
                  /\ frame[t].result = UnavailableDoc

C2_Witness ==
    /\ Returned(1)
    /\ frame[1].retries = MaxRetries
    /\ hist[1].nfail = MaxRetries + 1
    /\ hist[1].calls = MaxRetries + 1
    /\ hist[1].last_failure = Exc("RequestException", "Timeout")
    /\ ai_status.message = ExhaustedMsg(Exc("RequestException", "Timeout"))

\* C3: when the client set-up fails, no remote call and no backoff delay
\* happens, nothing but the status update and the return follows, and the
\* call ends with status "error" and the unavailable document, for every
\* value of retries.
C3_InitFailureIsFatal ==
    \A t \in Threads :
        (Generating(t) /\ hist[t].init = "failed") =>
            /\ hist[t].calls = 0
            /\ hist[t].delays = <<>>
            /\ AfterFatal(t)
            /\ pc[t] = "done" =>
                  /\ ai_status.state = "error"
                  /\ frame[t].result = UnavailableDoc

C3_Witness ==
    /\ Returned(1)
    /\ hist[1].init = "failed"
    /\ frame[1].retries = MaxRetries
    /\ ai_status.state = "error"

\* C4: once extract_json has given None for a reply, the same attempt sets
\* status "error" and returns the could-not-parse document: no remote call
\* and no backoff delay follows, also when attempts remain.
C4_NullReplyIsFatal ==
    \A t \in Threads :
        (Generating(t) /\ hist[t].null_reply) =>
            /\ AfterFatal(t)
            /\ hist[t].calls = frame[t].attempt + 1
            /\ Len(hist[t].delays) = frame[t].attempt
            /\ pc[t] = "done" =>
                  /\ ai_status = [state |-> "error", message |-> ParseErrorMsg]
                  /\ frame[t].result = ParseErrorDoc

C4_Witness ==
    /\ Returned(1)
    /\ hist[1].null_reply
    /\ frame[1].attempt = 1
    /\ frame[1].retries = MaxRetries
    /\ frame[1].result = ParseErrorDoc

\* The status state changes only along the pairs of S, or by the write of
\* "connecting" with which a call begins.
EntryWrite == \E t \in Threads : pc[t] = "set_state" /\ frame[t].ret_pc = "configure"
StateChangesWithin(S) ==
    \/ ai_status'.state = ai_status.state
    \/ EntryWrite
    \/ <<ai_status.state, ai_status'.state>> \in S

ClaimedTransitions ==
    { <<"connecting", "generating">>, <<"connecting", "error">>,
      <<"generating", "online">>, <<"generating", "offline">>,
      <<"generating", "error">> }

RetryTransitions ==
    { <<"offline", "generating">>, <<"error", "generating">>,
      <<"error", "offline">>, <<"online", "error">> }

\* C5 as claimed: within one call the state changes only connecting ->
\* generating or error and generating -> online, offline or error; online,
\* offline and error are not left before the next call begins.
C5_ClaimedTransitionsOnly == [][StateChangesWithin(ClaimedTransitions)]_vars

\* C5 as amended: the state changes only along the claimed pairs and, because
\* a failed attempt is followed by the next attempt or by the exhaustion
\* write, along offline -> generating, error -> generating, error -> offline,
\* and online -> error when assembling the document raises.
C5_TransitionsWithRetry ==
    [][StateChangesWithin(ClaimedTransitions \cup RetryTransitions)]_vars

C5_Witness ==
    /\ pc[1] = "remote"
    /\ ai_status.state = "generating"
    /\ hist[1].nfail = 2
    /\ hist[1].last_failure = AttributeError

\* C6 as claimed: a call in which a reply parsed to a JSON object succeeds:
\* it ends with status "online" and returns the document assembled from the
\* object, a missing html, css or js read as the empty string.
C6_ObjectReplySucceeds ==
    \A t \in Threads :
        (Returned(t) /\ hist[t].object_reply) =>
            /\ ai_status.state = "online"
            /\ hist[t].path = "assembled"
            /\ frame[t].result =
                  FinalCode(Get(frame[t].parsed, "html"), Get(frame[t].parsed, "css"),
                            Get(frame[t].parsed, "js"))

\* The html with block inserted before the first occurrence of each tag that
\* is still to be served, and nothing else changed.
RECURSIVE SpliceFirst(_, _, _, _, _)
SpliceFirst(s, style, script, headDone, bodyDone) ==
    IF s = <<>> THEN <<>>
    ELSE IF Head(s) = HeadClose /\ ~headDone
    THEN style \o <<HeadClose>> \o SpliceFirst(Tail(s), style, script, TRUE, bodyDone)
    ELSE IF Head(s) = BodyClose /\ ~bodyDone
    THEN script \o <<BodyClose>> \o SpliceFirst(Tail(s), style, script, headDone, TRUE)
    ELSE <<Head(s)>> \o SpliceFirst(Tail(s), style, script, headDone, bodyDone)

\* C7 as claimed: the assembled document is the reply's html with one style
\* block immediately before the first "</head>" and one script block
\* immediately before the first "</body>" of that html, nothing else changed.
C7_SplicedBeforeFirstTags ==
    \A t \in Threads :
        (Returned(t) /\ hist[t].path = "assembled") =>
            frame[t].result =
                SpliceFirst(Get(frame[t].parsed, "html").s,
                            StyleBlock(Get(frame[t].parsed, "css")),
                            ScriptBlock(Get(frame[t].parsed, "js")), FALSE, FALSE)

\* C8: the remote call of every attempt is made with status "generating";
\* after attempt i has raised, the status is "offline" for a network failure
\* and "error" for any other, and the delays slept before attempt k are
\* 2^0, ..., 2^(k-1), one after each failed attempt.
C8_AttemptStatusAndBackoff ==
    \A t \in Threads :
        Generating(t) =>
            /\ pc[t] = "remote" =>
                  ai_status = [state |-> "generating", message |-> GeneratingMsg]
            /\ pc[t] = "sleep" =>
                  ai_status.state =
                      IF hist[t].last_failure.cls = "RequestException"
                      THEN "offline" ELSE "error"
            /\ Len(hist[t].delays) = frame[t].attempt
            /\ \A i \in 1..Len(hist[t].delays) : hist[t].delays[i] = Pow2(i - 1)

C8_Witness ==
    /\ pc[1] = "remote"
    /\ frame[1].attempt = 2
    /\ hist[1].delays = <<1, 2>>
    /\ hist[1].last_failure.cls = "RequestException"

\* Every (state, message) pair that a call of set_ai_status writes, and the
\* pair the module starts with.
WrittenPairs ==
    LET excs == Exceptions \cup {AttributeError}
    IN  { [state |-> "connecting", message |-> ConnectingMsg],
          [state |-> "error", message |-> InitErrorMsg],
          [state |-> "generating", message |-> GeneratingMsg],
          [state |-> "error", message |-> ParseErrorMsg],
          [state |-> "online", message |-> OnlineMsg],
          [state |-> "offline", message |-> NetworkErrorMsg] }
        \cup {[state |-> "error", message |-> ServiceErrorMsg(e)] : e \in excs}
        \cup {[state |-> "offline", message |-> ExhaustedMsg(e)] :
                 e \in excs \cup {NoException}}

\* C9 as claimed: with concurrent callers, the status a reader sees is the
\* state and the message of one single set_ai_status call, never the state of
\* one call with the message of another.  The claim speaks of every instant;
\* it is stated here for the instants most favourable to it, those at which
\* no call of set_ai_status is between its two stores.
C9_StatusIsOneWrite ==
    (\A t \in Threads : pc[t] # "set_message") => ai_status \in WrittenPairs

(***************************************************************************)
(* Properties of optimize_prompt.                                          *)
(***************************************************************************)
Optimized(t) == pc[t] = "done" /\ hist[t].op = "optimize"

\* C10: a prompt whose trimmed length is at least 20 and whose trimmed,
\* lower-cased text is no generic phrase is returned exactly as given, and no
\* remote call is made.
C10_SpecificPromptPassesThrough ==
    \A t \in Threads :
        ( /\ Optimized(t)
          /\ Len(StripChars(hist[t].prompt)) >= 20
          /\ Lower(StripChars(hist[t].prompt)) \notin generic_phrases ) =>
            /\ frame[t].result = hist[t].prompt
            /\ hist[t].calls = 0

C10_Witness ==
    /\ Optimized(1)
    /\ Len(StripChars(hist[1].prompt)) = 20
    /\ Len(hist[1].prompt) = 23
    /\ frame[1].result = hist[1].prompt
    /\ hist[1].calls = 0

\* The prompts the enhancement is meant for: trimmed length below 20, or a
\* generic phrase.
NeedsEnhancement(prompt) ==
    \/ Len(StripChars(prompt)) < 20
    \/ Lower(StripChars(prompt)) \in generic_phrases

\* C11 as stated: for a prompt that is short or generic, the rewriting call
\* is always invoked and the result is never the prompt itself.
C11_AlwaysCallsAndChanges ==
    \A t \in Threads :
        (Optimized(t) /\ NeedsEnhancement(hist[t].prompt)) =>
            /\ hist[t].calls = 1
            /\ frame[t].result # hist[t].prompt

\* C11, amended: a prompt that is short or generic is never passed through;
\* the rewriting call is invoked unless its set-up raises first, and the
\* result differs from the prompt unless the service returned the prompt.
C11_NeverPassedThrough ==
    \A t \in Threads :
        (Optimized(t) /\ NeedsEnhancement(hist[t].prompt)) =>
            /\ hist[t].path # "pass_through"
            /\ hist[t].calls = 1 \/ hist[t].path = "setup_raised"
            /\ frame[t].result = hist[t].prompt =>
                  /\ hist[t].path = "improved"
                  /\ StripChars(hist[t].reply) = hist[t].prompt

C11_Witness ==
    /\ Optimized(1)
    /\ hist[1].prompt = <<"o", "k">>
    /\ hist[1].path = "improved"
    /\ hist[1].calls = 1
    /\ frame[1].result = <<"o", "k">>

\* The text the fallback is expected to give: the trimmed prompt, a blank
\* line, and the three guidance lines, once.
ExpectedFallback(prompt) ==
    StripChars(prompt)
    \o << "\n", "\n",
          "Use semantic HTML5 structure.", "\n",
          "Apply responsive CSS (mobile-first).", "\n",
          "Include clean modular JavaScript with comments." >>

\* C12: when optimize_prompt does not pass the prompt through, its result is
\* the trimmed text of the rewriting call if that text is not empty or
\* blank, and otherwise (set-up or call raised, or blank text) the trimmed
\* prompt, a blank line and the three guidance lines; no exception escapes.
C12_ImprovedOrFallback ==
    \A t \in Threads :
        /\ hist[t].op = "optimize" => pc[t] # "raised"
        /\ (Optimized(t) /\ hist[t].path # "pass_through") =>
              IF /\ hist[t].nfail = 0
                 /\ \E i \in 1..Len(hist[t].reply) : ~IsSpace(hist[t].reply[i])
              THEN /\ frame[t].result = StripChars(hist[t].reply)
                   /\ hist[t].calls = 1
              ELSE frame[t].result = ExpectedFallback(hist[t].prompt)

C12_Witness ==
    /\ Optimized(1)
    /\ hist[1].path = "empty_reply"
    /\ hist[1].reply = <<" ", "\n">>
    /\ hist[1].prompt = <<" ", "l", "o", "g", "i", "n", "\n", " ">>
    /\ Len(frame[1].result) = 12

(***************************************************************************)
(* Properties of extract_json.                                             *)
(***************************************************************************)
Extracted(t) == pc[t] = "done" /\ hist[t].op = "extract"

\* A surrounding text that holds more than whitespace.
HasProse(s) == \E i \in 1..Len(s) : s[i] # Ws

AroundObject(t) ==
    /\ Extracted(t)
    /\ hist[t].input.shape = "prose"
    /\ HasProse(hist[t].input.before \o hist[t].input.after)

\* C13 as stated: with any prose before and/or after one JSON object,
\* extract_json gives that object.
C13_ProseAlwaysRecovered ==
    \A t \in Threads :
        AroundObject(t) => frame[t].parsed = hist[t].input.value

\* C13, amended: with prose before and/or after one JSON object, where the
\* prose before holds no opening brace and the prose after no closing brace,
\* the strict parse fails and extract_json gives that object.
C13_BraceFreeProseRecovered ==
    \A t \in Threads :
        ( /\ AroundObject(t)
          /\ \A i \in 1..Len(hist[t].input.before) : hist[t].input.before[i] # LBrace
          /\ \A i \in 1..Len(hist[t].input.after) : hist[t].input.after[i] # RBrace ) =>
            /\ frame[t].parsed = hist[t].input.value
            /\ ~json_loads(CleanResponse(hist[t].reply)).ok

C13_Witness ==
    /\ AroundObject(1)
    /\ hist[1].input.before = <<RBrace, Prose>>
    /\ hist[1].input.after = <<Prose, LBrace>>
    /\ frame[1].parsed = hist[1].input.value
    /\ DOMAIN hist[1].input.value.d = {"html", "css", "js"}

\* C14: for a JSON value of any kind between the opening fence with its json
\* tag and the closing fence, with or without whitespace at every place
\* around them, extract_json gives the value the JSON text parses to.
C14_FencedEqualsStrict ==
    \A t \in Threads :
        (Extracted(t) /\ hist[t].input.shape = "fenced") =>
            /\ json_loads(Ser(hist[t].input.value)).ok
            /\ frame[t].parsed = json_loads(Ser(hist[t].input.value)).val
            /\ frame[t].parsed = hist[t].input.value

C14_Witness ==
    /\ Extracted(1)
    /\ hist[1].reply = <<Ws, FenceJson, Lit(PyList(<<PyInt(1)>>)), Ws, Fence, Ws>>
    /\ frame[1].parsed = PyList(<<PyInt(1)>>)

(***************************************************************************)
(* The final status, the online write and the delays of                    *)
(* generate_code_from_prompt.                                              *)
(***************************************************************************)
\* C15: with one caller, when generate_code_from_prompt has returned the
\* status state is online, offline or error, and it is online exactly when
\* the returned string is the assembled document.
C15_OnlineIffAssembled ==
    Returned(1) =>
        /\ ai_status.state \in {"online", "offline", "error"}
        /\ ai_status.state = "online" <=> hist[1].path = "assembled"
        /\ hist[1].path # "assembled" =>
              frame[1].result \in {UnavailableDoc, ParseErrorDoc}

C15_Witness ==
    /\ Returned(1)
    /\ hist[1].path = "assembled"
    /\ hist[1].nfail = 1
    /\ ai_status = [state |-> "online", message |-> OnlineMsg]
    /\ frame[1].result \notin {UnavailableDoc, ParseErrorDoc}

\* C16: once a call has gone on to write online, for any reply that
\* extract_json turned into a value other than None, the call writes no
\* other status, makes no further remote call, sleeps no more, and returns
\* the assembled document.
C16_OnlineThenReturns ==
    \A t \in Threads :
        (Generating(t) /\ hist[t].online) =>
            /\ pc[t] \in {"set_state", "set_message", "assemble", "done"}
            /\ frame[t].arg_state = "online"
            /\ hist[t].calls = frame[t].attempt + 1
            /\ Len(hist[t].delays) = frame[t].attempt
            /\ pc[t] = "done" => hist[t].path = "assembled"

RECURSIVE SumSeq(_)
SumSeq(s) == IF s = <<>> THEN 0 ELSE Head(s) + SumSeq(Tail(s))

\* A failed attempt whose sleep is still to come.
SleepPending(t) ==
    \/ pc[t] = "sleep"
    \/ pc[t] \in {"set_state", "set_message"} /\ frame[t].ret_pc = "sleep"

\* The call is about to give, or has given, the document of exhaustion.
Exhausted(t) ==
    \/ pc[t] \in {"set_state", "set_message", "return"} /\ frame[t].pending_path = "exhausted"
    \/ pc[t] = "done" /\ hist[t].path = "exhausted"

\* C17: the i-th failed attempt (from 0) is followed by a delay of 2^i, the
\* last one too, so the delays are as many as the attempts that raised; when
\* all retries + 1 attempts have failed the delays add up to
\* 2^(retries + 1) - 1 before the offline status is written; the attempt
\* that succeeds or gets an unparseable reply, and a failed set-up, are
\* followed by no delay.
C17_DelayAfterEveryFailure ==
    \A t \in Threads :
        Generating(t) =>
            /\ Len(hist[t].delays) = hist[t].nfail - (IF SleepPending(t) THEN 1 ELSE 0)
            /\ \A i \in 1..Len(hist[t].delays) : hist[t].delays[i] = 2^(i - 1)
            /\ Exhausted(t) =>
                  /\ Len(hist[t].delays) = frame[t].retries + 1
                  /\ hist[t].calls = frame[t].retries + 1
                  /\ SumSeq(hist[t].delays) = 2^(frame[t].retries + 1) - 1
            /\ (pc[t] = "done" /\ hist[t].path \in {"assembled", "parse_error"}) =>
                  Len(hist[t].delays) = hist[t].calls - 1
            /\ (pc[t] = "done" /\ hist[t].path = "init_error") =>
                  hist[t].delays = <<>> /\ hist[t].calls = 0

C17_Witness ==
    /\ pc[1] = "set_state"
    /\ frame[1].arg_state = "offline"
    /\ frame[1].pending_path = "exhausted"
    /\ frame[1].retries = 2
    /\ hist[1].delays = <<1, 2, 4>>

(***************************************************************************)
(* optimize_prompt and the shared status; the generic phrases.             *)
(***************************************************************************)
\* C18: a call of optimize_prompt, with its use of rule_based_enhancement,
\* leaves the shared status as it was.
C18_OptimizeKeepsStatus ==
    [][ \A t \in Threads :
          (pc[t] = "idle" /\ hist'[t].op = "optimize") => ai_status' = ai_status ]_vars

C18_Witness ==
    /\ Optimized(1)
    /\ hist[1].path = "call_raised"
    /\ frame[1].result = ExpectedFallback(hist[1].prompt)
    /\ ai_status.state = "offline"
    /\ ai_status.message.detail = "ConnectionError"

\* C19: every generic phrase is shorter than 20 characters, so a prompt is
\* passed through unchanged exactly when its trimmed length is at least 20.
C19_LengthAloneDecides ==
    /\ \A phrase \in generic_phrases : Len(phrase) < 20
    /\ \A t \in Threads :
          Optimized(t) =>
              /\ hist[t].path = "pass_through" <=> Len(StripChars(hist[t].prompt)) >= 20
              /\ hist[t].path = "pass_through" => frame[t].result = hist[t].prompt

C19_Witness ==
    /\ Optimized(1)
    /\ Len(StripChars(hist[1].prompt)) >= 20
    /\ SubSeq(hist[1].prompt, 1, 6) = <<"l", "o", "g", "i", "n", " ">>
    /\ hist[1].path = "pass_through"

====
